---- MODULE Spec2Model ----
(***************************************************************************)
(* MedScan emergency face scan.                                            *)
(*                                                                         *)
(*  - the match-selection policy: the multi-stage faceRecognitionFlow      *)
(*    (scoring prompt, two thresholds, final verification), the            *)
(*    single-stage faceRecognitionFlow (comparison prompt) and the mock    *)
(*    recognizeFaceAndFetchData of the scan page;                          *)
(*  - the scan page FaceScanPage and the WebcamCapture component it        *)
(*    renders while capturing.                                             *)
(*                                                                         *)
(* JavaScript runs one task at a time: every action below is the code that *)
(* runs between two suspension points (await) or inside one event handler. *)
(***************************************************************************)
EXTENDS Integers, Sequences, FiniteSets, TLC

\* ---------------------------------------------------------------- bounds
MaxPatients == 3
MaxMounts == 2

\* ------------------------------------------------------ program constants
HIGH_CONFIDENCE_THRESHOLD == 95
MINIMUM_CONFIDENCE_THRESHOLD == 75

\* ------------------------------------------------------------ data model
Null == [kind |-> "null"]

\* an optional string property: undefined, or a string of characters
Undefined == [kind |-> "undefined"]
Str(cs) == [kind |-> "string", chars |-> cs]

DataImage == <<"d", "a", "t", "a", ":", "i", "m", "a", "g", "e">>

\* String.prototype.startsWith
startsWith(s, prefix) ==
    /\ Len(s) >= Len(prefix)
    /\ SubSeq(s, 1, Len(prefix)) = prefix

\* the faceImageUrl values a registered patient may carry
FaceImageUrls ==
    { Undefined,
      Str(<<>>),
      Str(<<"h", "t", "t", "p", ":">>),
      Str(<<"d", "a", "t", "a", ":", "t", "e", "x", "t">>),
      Str(DataImage \o <<"/", "p", "n", "g">>) }

\* JavaScript truthiness of an optional string: undefined and "" are falsy
Falsy(v) == IF v.kind = "undefined" THEN TRUE ELSE Len(v.chars) = 0

\* a skip condition that only tests for a missing value
HasNoImageFalsyOnly(url) ==
    Falsy(url)

\* the loops' skip condition:
\*   !patient.faceImageUrl || !patient.faceImageUrl.startsWith('data:image')
HasNoImage(url) ==
    IF Falsy(url) THEN TRUE ELSE ~startsWith(url.chars, DataImage)

\* PatientData, reduced to the fields the flows read; ids are roster keys
Patient(i, url) == [id |-> i, faceImageUrl |-> url]

Rosters ==
    UNION { { [i \in 1..n |-> Patient(i, f[i])] : f \in [1..n -> FaceImageUrls] }
            : n \in 0..MaxPatients }

\* confidenceScore: z.number().min(0).max(100)
Scores == {0, 74, 75, 85, 94, 95}

\* how an async function settles
Return(v) == [kind |-> "return", value |-> v]
Throw(msg) == [kind |-> "throw", message |-> msg]

\* Error.message
Message(text) == [kind |-> "message", text |-> text]

NoMatch == [matchFound |-> FALSE, patient |-> Null]
Matched(p) == [matchFound |-> TRUE, patient |-> p]

VARIABLES
    impl,           \* which recognition function serves the request
    input,          \* input.registeredPatients
    pc,             \* position of the request's async function
    idx,            \* position of the for-of iterator (1-based)
    bestCandidate,  \* Null or [patient, score]
    calls,          \* external prompt calls issued so far, in order of issue
    result,         \* the value the function returned
    status          \* "running", "returned" or "raised"

flowVars == <<impl, input, pc, idx, bestCandidate, calls, result, status>>

VARIABLES
    registeredPatients, \* usePatientData().patients
    pageMounted,        \* FaceScanPage is on screen
    scanStep, capturedImage, patientData, isLoading, scanError, noMatchFound,
    recognition,        \* "none", or "pending": handleCapture awaits the call
    requests,           \* recognition calls issued by the page so far
    settled,            \* how the latest recognition call settled, Null if none
    lastEvent,          \* the latest UI event or callback that ran
    mediaDevices,       \* navigator.mediaDevices.getUserMedia exists
    mounts,             \* WebcamCapture instances mounted so far
    widget,             \* state of the mounted WebcamCapture, Null if none
    effects,            \* per mount: the effect's closure and its request
    tracks,             \* per mount: the acquired stream's tracks
    stops               \* per mount: track.stop() calls

pageVars == <<registeredPatients, pageMounted, scanStep, capturedImage,
              patientData, isLoading, scanError, noMatchFound, recognition,
              requests, settled, lastEvent>>
widgetVars == <<mediaDevices, mounts, widget, effects, tracks, stops>>
uiVars == <<pageVars, widgetVars>>
vars == <<flowVars, uiVars>>

\* ----------------------------------------------------------- call records
Call(kind, i) == [kind |-> kind, idx |-> i, patient |-> input[i],
                  state |-> "inflight", output |-> Null]

InFlight == { k \in DOMAIN calls : calls[k].state = "inflight" }

Settle(k, st, out) == [calls EXCEPT ![k].state = st, ![k].output = out]

CallsOf(kind) == { k \in DOMAIN calls : calls[k].kind = kind }

\* --------------------------------------------- multi-stage flow (part_000)
Multi == impl = "multi"

MultiEnter ==
    /\ Multi /\ pc = "start"
    /\ IF Len(input) = 0
         THEN /\ result' = NoMatch
              /\ status' = "returned"
              /\ pc' = "done"
         ELSE /\ pc' = "loop"
              /\ UNCHANGED <<result, status>>
    /\ UNCHANGED <<impl, input, idx, bestCandidate, calls>>
    /\ UNCHANGED uiVars

MultiSkipPatient ==
    /\ Multi /\ pc = "loop" /\ idx <= Len(input)
    /\ HasNoImage(input[idx].faceImageUrl)
    /\ idx' = idx + 1
    /\ UNCHANGED <<impl, input, pc, bestCandidate, calls, result, status>>
    /\ UNCHANGED uiVars

\* a loop that issues the call and moves on without awaiting it
MultiCallScorerNoAwait ==
    /\ Multi /\ pc = "loop" /\ idx <= Len(input)
    /\ ~HasNoImage(input[idx].faceImageUrl)
    /\ calls' = Append(calls, Call("scorer", idx))
    /\ idx' = idx + 1
    /\ UNCHANGED <<impl, input, pc, bestCandidate, result, status>>
    /\ UNCHANGED uiVars

MultiCallScorer ==
    /\ Multi /\ pc = "loop" /\ idx <= Len(input)
    /\ ~HasNoImage(input[idx].faceImageUrl)
    /\ calls' = Append(calls, Call("scorer", idx))
    /\ pc' = "awaitScore"
    /\ UNCHANGED <<impl, input, idx, bestCandidate, result, status>>
    /\ UNCHANGED uiVars

\* bestCandidate?.score || 0
BestScoreOrZero ==
    IF bestCandidate = Null THEN 0
    ELSE IF bestCandidate.score = 0 THEN 0 ELSE bestCandidate.score

\* a threshold test that leaves the threshold itself out
IsHighConfidenceStrict(score) ==
    score > HIGH_CONFIDENCE_THRESHOLD

\* output.confidenceScore >= HIGH_CONFIDENCE_THRESHOLD
IsHighConfidence(score) ==
    score >= HIGH_CONFIDENCE_THRESHOLD

\* a best-so-far test that lets an equal score replace the best
IsBetterOrEqual(score) ==
    score >= BestScoreOrZero

\* output.confidenceScore > (bestCandidate?.score || 0)
IsBetter(score) ==
    score > BestScoreOrZero

\* the scoring prompt resolves with output (Null: no output)
MultiScorerReturns(k, output) ==
    /\ Multi /\ pc = "awaitScore" /\ k \in InFlight
    /\ calls[k].kind = "scorer"
    /\ calls' = Settle(k, "returned", output)
    /\ IF output # Null /\ IsHighConfidence(output.confidenceScore)
         THEN /\ result' = Matched(input[idx])
              /\ status' = "returned"
              /\ pc' = "done"
              /\ UNCHANGED <<idx, bestCandidate>>
         ELSE /\ bestCandidate' =
                    IF output # Null /\ IsBetter(output.confidenceScore)
                      THEN [patient |-> input[idx], score |-> output.confidenceScore]
                      ELSE bestCandidate
              /\ idx' = idx + 1
              /\ pc' = "loop"
              /\ UNCHANGED <<result, status>>
    /\ UNCHANGED <<impl, input>>
    /\ UNCHANGED uiVars

\* a scoring failure that escapes the loop instead of being caught
MultiScorerFailsUncaught(k) ==
    /\ Multi /\ pc = "awaitScore" /\ k \in InFlight
    /\ calls[k].kind = "scorer"
    /\ calls' = Settle(k, "failed", Null)
    /\ result' = Throw(Message("scoring failed"))
    /\ status' = "raised"
    /\ pc' = "done"
    /\ UNCHANGED <<impl, input, idx, bestCandidate>>
    /\ UNCHANGED uiVars

\* the scoring prompt rejects: caught, logged, next patient
MultiScorerFails(k) ==
    /\ Multi /\ pc = "awaitScore" /\ k \in InFlight
    /\ calls[k].kind = "scorer"
    /\ calls' = Settle(k, "failed", Null)
    /\ idx' = idx + 1
    /\ pc' = "loop"
    /\ UNCHANGED <<impl, input, bestCandidate, result, status>>
    /\ UNCHANGED uiVars

\* a stage-2 test that forgets the minimum threshold
NeedsVerificationAnyScore ==
    bestCandidate # Null

\* bestCandidate && bestCandidate.score >= MINIMUM_CONFIDENCE_THRESHOLD
NeedsVerification ==
    bestCandidate # Null /\ bestCandidate.score >= MINIMUM_CONFIDENCE_THRESHOLD

\* STAGE 2: the loop is exhausted
MultiStage2 ==
    /\ Multi /\ pc = "loop" /\ idx > Len(input)
    /\ IF NeedsVerification
         THEN /\ calls' = Append(calls, [kind |-> "verifier",
                                        idx |-> bestCandidate.patient.id,
                                        patient |-> bestCandidate.patient,
                                        state |-> "inflight", output |-> Null])
              /\ pc' = "awaitVerify"
              /\ UNCHANGED <<result, status>>
         ELSE /\ result' = NoMatch
              /\ status' = "returned"
              /\ pc' = "done"
              /\ UNCHANGED calls
    /\ UNCHANGED <<impl, input, idx, bestCandidate>>
    /\ UNCHANGED uiVars

\* a verdict that takes a missing output for a confirmation
VerifierVerdictLenient(output) ==
    IF output = Null THEN Matched(bestCandidate.patient)
    ELSE IF output.isMatch THEN Matched(bestCandidate.patient) ELSE NoMatch

\* if (output?.isMatch) return matched; otherwise fall through to no match
VerifierVerdict(output) ==
    IF output # Null /\ output.isMatch
      THEN Matched(bestCandidate.patient)
      ELSE NoMatch

\* STAGE 3: the verification prompt resolves with output (Null: no output)
MultiVerifierReturns(k, output) ==
    /\ Multi /\ pc = "awaitVerify" /\ k \in InFlight
    /\ calls[k].kind = "verifier"
    /\ calls' = Settle(k, "returned", output)
    /\ result' = VerifierVerdict(output)
    /\ status' = "returned"
    /\ pc' = "done"
    /\ UNCHANGED <<impl, input, idx, bestCandidate>>
    /\ UNCHANGED uiVars

\* a verification failure that escapes instead of being caught
MultiVerifierFailsUncaught(k) ==
    /\ Multi /\ pc = "awaitVerify" /\ k \in InFlight
    /\ calls[k].kind = "verifier"
    /\ calls' = Settle(k, "failed", Null)
    /\ result' = Throw(Message("verification failed"))
    /\ status' = "raised"
    /\ pc' = "done"
    /\ UNCHANGED <<impl, input, idx, bestCandidate>>
    /\ UNCHANGED uiVars

\* the verification prompt rejects: caught, logged, no match
MultiVerifierFails(k) ==
    /\ Multi /\ pc = "awaitVerify" /\ k \in InFlight
    /\ calls[k].kind = "verifier"
    /\ calls' = Settle(k, "failed", Null)
    /\ result' = NoMatch
    /\ status' = "returned"
    /\ pc' = "done"
    /\ UNCHANGED <<impl, input, idx, bestCandidate>>
    /\ UNCHANGED uiVars

\* ------------------------------ single-stage flow (face-recognition-flow.ts)
Single == impl = "single"

SingleEnter ==
    /\ Single /\ pc = "start"
    /\ IF Len(input) = 0
         THEN /\ result' = NoMatch
              /\ status' = "returned"
              /\ pc' = "done"
         ELSE /\ pc' = "loop"
              /\ UNCHANGED <<result, status>>
    /\ UNCHANGED <<impl, input, idx, bestCandidate, calls>>
    /\ UNCHANGED uiVars

SingleSkipPatient ==
    /\ Single /\ pc = "loop" /\ idx <= Len(input)
    /\ HasNoImage(input[idx].faceImageUrl)
    /\ idx' = idx + 1
    /\ UNCHANGED <<impl, input, pc, bestCandidate, calls, result, status>>
    /\ UNCHANGED uiVars

SingleCallComparison ==
    /\ Single /\ pc = "loop" /\ idx <= Len(input)
    /\ ~HasNoImage(input[idx].faceImageUrl)
    /\ calls' = Append(calls, Call("comparison", idx))
    /\ pc' = "awaitCompare"
    /\ UNCHANGED <<impl, input, idx, bestCandidate, result, status>>
    /\ UNCHANGED uiVars

\* a test that takes a missing output for a match
ComparisonSaysSameLenient(output) ==
    IF output = Null THEN TRUE ELSE output.isSamePerson

\* output?.isSamePerson
ComparisonSaysSame(output) ==
    IF output = Null THEN FALSE ELSE output.isSamePerson

\* the comparison prompt resolves with output (Null: no output)
SingleComparisonReturns(k, output) ==
    /\ Single /\ pc = "awaitCompare" /\ k \in InFlight
    /\ calls[k].kind = "comparison"
    /\ calls' = Settle(k, "returned", output)
    /\ IF ComparisonSaysSame(output)
         THEN /\ result' = Matched(input[idx])
              /\ status' = "returned"
              /\ pc' = "done"
              /\ UNCHANGED idx
         ELSE /\ idx' = idx + 1
              /\ pc' = "loop"
              /\ UNCHANGED <<result, status>>
    /\ UNCHANGED <<impl, input, bestCandidate>>
    /\ UNCHANGED uiVars

SingleComparisonFails(k) ==
    /\ Single /\ pc = "awaitCompare" /\ k \in InFlight
    /\ calls[k].kind = "comparison"
    /\ calls' = Settle(k, "failed", Null)
    /\ idx' = idx + 1
    /\ pc' = "loop"
    /\ UNCHANGED <<impl, input, bestCandidate, result, status>>
    /\ UNCHANGED uiVars

SingleLoopEnd ==
    /\ Single /\ pc = "loop" /\ idx > Len(input)
    /\ result' = NoMatch
    /\ status' = "returned"
    /\ pc' = "done"
    /\ UNCHANGED <<impl, input, idx, bestCandidate, calls>>
    /\ UNCHANGED uiVars

\* ----------------------------- mock recognition of the scan page (page.tsx)
\* Math.random(), in hundredths
Randoms == {0, 50, 69, 70, 89, 90, 99}

SimulatedError == Message("Simulated face recognition service error.")

\* Math.floor(Math.random() * allPatients.length), 1-based
randomIndex(r, allPatients) == ((r * Len(allPatients)) \div 100) + 1

\* a mock that forgets the empty roster
recognizeFaceAndFetchDataNoEmptyCheck(allPatients, randomOutcome, r) ==
    IF randomOutcome < 70 /\ Len(allPatients) > 0
      THEN Return(allPatients[randomIndex(r, allPatients)])
    ELSE IF randomOutcome < 90 THEN Return(Null)
    ELSE Throw(SimulatedError)

\* what the mock settles with, after its 2.5 s timer, for two random draws
recognizeFaceAndFetchData(allPatients, randomOutcome, r) ==
    IF Len(allPatients) = 0 THEN Return(Null)
    ELSE IF randomOutcome < 70 /\ Len(allPatients) > 0
      THEN Return(allPatients[randomIndex(r, allPatients)])
    ELSE IF randomOutcome < 90 THEN Return(Null)
    ELSE Throw(SimulatedError)

Mock == impl = "mock"

MockRecognize(randomOutcome, r) ==
    /\ Mock /\ pc = "start"
    /\ LET o == recognizeFaceAndFetchData(input, randomOutcome, r) IN
         IF o.kind = "return"
           THEN result' = o.value /\ status' = "returned"
           ELSE result' = o /\ status' = "raised"
    /\ pc' = "done"
    /\ UNCHANGED <<impl, input, idx, bestCandidate, calls>>
    /\ UNCHANGED uiVars

\* ------------------------------------------------------------------ outputs
ScorerOutputs == { [confidenceScore |-> s] : s \in Scores } \cup {Null}
VerifierOutputs == { [isMatch |-> b] : b \in BOOLEAN } \cup {Null}
ComparisonOutputs == { [isSamePerson |-> b] : b \in BOOLEAN } \cup {Null}

\* ------------------------------------------- WebcamCapture (part_000 1-148)
MountIds == 1..MaxMounts

Stream(m) == [kind |-> "stream", id |-> m]

\* the three views of the component's render
View(w) ==
    IF w.isLoading \/ w.hasPermission = "null" THEN "pending"
    ELSE IF w.hasPermission = "false" THEN "denied"
    ELSE "ready"

\* videoRef.current: the <video> element exists only in the ready view
videoRefCurrent == widget # Null /\ View(widget) = "ready"

\* first render of a new instance, then the effect: setupWebcam up to its await
WidgetAfterMount ==
    IF mediaDevices
      THEN [id |-> mounts + 1, stream |-> Null, hasPermission |-> "null",
            isLoading |-> TRUE, srcObject |-> Null]
      ELSE [id |-> mounts + 1, stream |-> Null, hasPermission |-> "false",
            isLoading |-> FALSE, srcObject |-> Null]

EffectAfterMount ==
    [currentStream |-> Null,
     getUserMedia |-> IF mediaDevices THEN "pending" ELSE "none",
     cleanedUp |-> FALSE,
     requests |-> IF mediaDevices THEN 1 ELSE 0]

\* useToast(): the toast function it hands out is the same on every render
ToastIdentityStable == TRUE

\* an effect without a dependency array runs again after every render
EffectRerunsEveryRender == TRUE

\* useEffect(..., [toast]): after a render the effect runs again (cleanup
\* first) only if toast is not the function of the previous render
EffectReruns == ~ToastIdentityStable

\* the closure of an effect that runs again: the cleanup of the previous run,
\* then setupWebcam with a fresh currentStream and a new getUserMedia request
EffectAfterRerun(e) ==
    [currentStream |-> Null, getUserMedia |-> "pending", cleanedUp |-> FALSE,
     requests |-> e.requests + 1]

\* setIsLoading(true); setHasPermission(null) of the run that starts again
WidgetAfterRerun(w) ==
    [w EXCEPT !.hasPermission = "null", !.isLoading = TRUE]

\* the effect's cleanup: if (currentStream) stop every track
CleanupEffects(e) ==
    IF widget = Null THEN e
    ELSE [e EXCEPT ![widget.id].cleanedUp = TRUE]

CleanupTracks(t) ==
    IF widget = Null THEN t
    ELSE IF effects[widget.id].currentStream # Null
      THEN [t EXCEPT ![widget.id] = "stopped"]
      ELSE t

CleanupStops(n) ==
    IF widget = Null THEN n
    ELSE IF effects[widget.id].currentStream # Null
      THEN [n EXCEPT ![widget.id] = @ + 1]
      ELSE n

\* React removes the component: the cleanup runs, the instance is gone
UnmountWidget ==
    /\ effects' = CleanupEffects(effects)
    /\ tracks' = CleanupTracks(tracks)
    /\ stops' = CleanupStops(stops)
    /\ widget' = Null
    /\ UNCHANGED <<mediaDevices, mounts>>

\* the promise of getUserMedia resolves; the rest of the try block runs, then
\* React renders the component with the new state
GetUserMediaResolves(m) ==
    /\ effects[m].getUserMedia = "pending"
    /\ LET mounted == IF widget = Null THEN FALSE ELSE widget.id = m
           rerun == mounted /\ EffectReruns
           w == IF mounted
                  THEN [widget EXCEPT
                          !.stream = Stream(m),
                          !.hasPermission = "true",
                          !.srcObject = IF videoRefCurrent THEN Stream(m) ELSE @,
                          !.isLoading = FALSE]
                  ELSE widget
       IN /\ effects' = [effects EXCEPT ![m] =
                            IF rerun THEN EffectAfterRerun(@)
                            ELSE [@ EXCEPT !.currentStream = Stream(m),
                                           !.getUserMedia = "resolved"]]
          /\ tracks' = [tracks EXCEPT ![m] = IF rerun THEN "stopped" ELSE "live"]
          /\ stops' = IF rerun THEN [stops EXCEPT ![m] = @ + 1] ELSE stops
          /\ widget' = IF rerun THEN WidgetAfterRerun(w) ELSE w
    /\ lastEvent' = "granted"
    /\ UNCHANGED <<mediaDevices, mounts>>
    /\ UNCHANGED <<registeredPatients, pageMounted, scanStep, capturedImage,
                   patientData, isLoading, scanError, noMatchFound, recognition,
                   requests, settled>>
    /\ UNCHANGED flowVars

\* the promise of getUserMedia rejects; catch and finally run, then React
\* renders the component with the new state
GetUserMediaRejects(m) ==
    /\ effects[m].getUserMedia = "pending"
    /\ LET mounted == IF widget = Null THEN FALSE ELSE widget.id = m
           rerun == mounted /\ EffectReruns
           w == IF mounted
                  THEN [widget EXCEPT !.hasPermission = "false", !.isLoading = FALSE]
                  ELSE widget
       IN /\ effects' = [effects EXCEPT ![m] =
                            IF rerun THEN EffectAfterRerun(@)
                            ELSE [@ EXCEPT !.getUserMedia = "rejected"]]
          /\ widget' = IF rerun THEN WidgetAfterRerun(w) ELSE w
    /\ lastEvent' = "denied"
    /\ UNCHANGED <<mediaDevices, mounts, tracks, stops>>
    /\ UNCHANGED <<registeredPatients, pageMounted, scanStep, capturedImage,
                   patientData, isLoading, scanError, noMatchFound, recognition,
                   requests, settled>>
    /\ UNCHANGED flowVars

\* canvas.toDataURL of the drawn frame: a frame of the attached stream, or
\* the empty image of a video element that has no source
Image(content) == [kind |-> "image", content |-> content]

toDataURL == IF widget.srcObject # Null THEN Image("frame") ELSE Image("blank")

\* ------------------------------------------------- FaceScanPage (page.tsx)
HandleStartScan ==
    /\ pageMounted /\ scanStep = "initial"
    /\ mounts < MaxMounts
    /\ scanStep' = "capturing"
    /\ widget' = WidgetAfterMount
    /\ effects' = [effects EXCEPT ![mounts + 1] = EffectAfterMount]
    /\ mounts' = mounts + 1
    /\ lastEvent' = "start"
    /\ UNCHANGED <<mediaDevices, tracks, stops>>
    /\ UNCHANGED <<registeredPatients, pageMounted, capturedImage, patientData,
                   isLoading, scanError, noMatchFound, recognition, requests,
                   settled>>
    /\ UNCHANGED flowVars

\* the Capture button: WebcamCapture.handleCapture, then the page's
\* handleCapture up to its await, then the render that drops the component
HandleCapture ==
    /\ pageMounted /\ scanStep = "capturing"
    /\ widget # Null /\ View(widget) = "ready"
    /\ videoRefCurrent /\ widget.stream # Null
    /\ capturedImage' = toDataURL
    /\ scanStep' = "processing"
    /\ isLoading' = TRUE
    /\ patientData' = Null
    /\ scanError' = Null
    /\ noMatchFound' = FALSE
    /\ recognition' = "pending"
    /\ requests' = requests + 1
    /\ lastEvent' = "capture"
    /\ UnmountWidget
    /\ UNCHANGED <<registeredPatients, pageMounted, settled>>
    /\ UNCHANGED flowVars

\* error instanceof Error ? error.message : "An unknown error occurred ..."
\* (a thrown Error carries a message; anything else thrown does not)
errorMessageGeneric(o) ==
    Message("An unknown error occurred during face scan.")

errorMessage(o) ==
    IF o.message.kind = "message" THEN o.message
    ELSE Message("An unknown error occurred during face scan.")

\* the three outcomes of the try / catch of handleCapture; toast() only
\* notifies and returns
PatientDataAfter(o) ==
    IF o.kind = "return" /\ o.value # Null THEN o.value ELSE patientData

\* a no-match flag raised whenever the call returns
NoMatchFoundAfterAnyReturn(o) ==
    IF o.kind = "return" THEN TRUE ELSE noMatchFound

NoMatchFoundAfter(o) ==
    IF o.kind = "return" /\ o.value = Null THEN TRUE ELSE noMatchFound

ScanErrorAfter(o) ==
    IF o.kind = "throw" THEN errorMessage(o) ELSE scanError

\* a failed scan that sends the user back to the camera
ScanStepAfterRetryOnError(o) ==
    IF o.kind = "throw" THEN "capturing" ELSE "result"

\* a step to result that sits in the try block instead of finally
ScanStepAfterNoFinally(o) ==
    IF o.kind = "throw" THEN scanStep ELSE "result"

\* finally { setIsLoading(false); setScanStep('result') }
ScanStepAfter(o) == "result"

\* a loading flag cleared in the try block only, so a failed call leaves it set
IsLoadingAfterNoFinally(o) ==
    IF o.kind = "throw" THEN isLoading ELSE FALSE

\* finally { setIsLoading(false); ... }: cleared however the call settled
IsLoadingAfter(o) == FALSE

\* the recognition call settles: try / catch / finally of handleCapture
\* (state updates of a component that is gone have no effect)
RecognitionSettles(randomOutcome, r) ==
    /\ recognition = "pending"
    /\ recognition' = "none"
    /\ LET o == recognizeFaceAndFetchData(registeredPatients, randomOutcome, r) IN
         /\ settled' = o
         /\ IF pageMounted
              THEN /\ patientData' = PatientDataAfter(o)
                   /\ noMatchFound' = NoMatchFoundAfter(o)
                   /\ scanError' = ScanErrorAfter(o)
                   /\ isLoading' = IsLoadingAfter(o)
                   /\ scanStep' = ScanStepAfter(o)
              ELSE UNCHANGED <<patientData, noMatchFound, scanError, isLoading,
                               scanStep>>
    /\ lastEvent' = "settle"
    /\ UNCHANGED <<registeredPatients, pageMounted, capturedImage, requests>>
    /\ UNCHANGED widgetVars
    /\ UNCHANGED flowVars

\* a reset that leaves the step where it is
resetScanKeepsStep ==
    /\ capturedImage' = Null
    /\ patientData' = Null
    /\ isLoading' = FALSE
    /\ scanError' = Null
    /\ noMatchFound' = FALSE
    /\ scanStep' = scanStep
    /\ UNCHANGED <<registeredPatients, pageMounted, recognition, requests, settled>>

\* a reset that forgets the outcome flags
resetScanKeepsOutcome ==
    /\ capturedImage' = Null
    /\ isLoading' = FALSE
    /\ scanStep' = "initial"
    /\ UNCHANGED <<patientData, scanError, noMatchFound>>
    /\ UNCHANGED <<registeredPatients, pageMounted, recognition, requests, settled>>

resetScan ==
    /\ capturedImage' = Null
    /\ patientData' = Null
    /\ isLoading' = FALSE
    /\ scanError' = Null
    /\ noMatchFound' = FALSE
    /\ scanStep' = "initial"
    /\ UNCHANGED <<registeredPatients, pageMounted, recognition, requests, settled>>

\* the Cancel button of WebcamCapture (ready and denied views): onCancel
CancelScan ==
    /\ pageMounted /\ scanStep = "capturing"
    /\ widget # Null /\ View(widget) \in {"ready", "denied"}
    /\ resetScan
    /\ lastEvent' = "cancel"
    /\ UnmountWidget
    /\ UNCHANGED flowVars

\* the "Scan Another Face" button of the result view
ScanAnother ==
    /\ pageMounted /\ scanStep = "result"
    /\ resetScan
    /\ lastEvent' = "reset"
    /\ UNCHANGED widgetVars
    /\ UNCHANGED flowVars

\* the user leaves the page: React unmounts FaceScanPage and its children
PageUnmount ==
    /\ pageMounted
    /\ pageMounted' = FALSE
    /\ lastEvent' = "unmount"
    /\ UnmountWidget
    /\ UNCHANGED <<registeredPatients, scanStep, capturedImage, patientData,
                   isLoading, scanError, noMatchFound, recognition, requests,
                   settled>>
    /\ UNCHANGED flowVars

\* renderContent, case 'result': which of the three blocks is on screen
ShownError == scanError # Null

ShownNoMatch == noMatchFound /\ patientData = Null /\ scanError = Null

ShownMatched == patientData # Null

\* ---------------------------------------------------------- specifications
FlowIdle ==
    /\ pc = "start"
    /\ idx = 1
    /\ bestCandidate = Null
    /\ calls = <<>>
    /\ result = Null
    /\ status = "running"

PageInitial ==
    /\ scanStep = "initial"
    /\ capturedImage = Null
    /\ patientData = Null
    /\ isLoading = FALSE
    /\ scanError = Null
    /\ noMatchFound = FALSE
    /\ recognition = "none"
    /\ requests = 0
    /\ settled = Null
    /\ lastEvent = "none"
    /\ mounts = 0
    /\ widget = Null
    /\ effects = [m \in MountIds |->
                    [currentStream |-> Null, getUserMedia |-> "none",
                     cleanedUp |-> FALSE, requests |-> 0]]
    /\ tracks = [m \in MountIds |-> "none"]
    /\ stops = [m \in MountIds |-> 0]

\* one recognition request served by one of the three recognition
\* functions; no scan page is on screen
InitFlow ==
    /\ impl \in {"multi", "single", "mock"}
    /\ input \in Rosters
    /\ FlowIdle
    /\ registeredPatients = <<>>
    /\ mediaDevices = TRUE
    /\ pageMounted = FALSE
    /\ PageInitial

NextFlow ==
    \/ MultiEnter
    \/ MultiSkipPatient
    \/ MultiCallScorer
    \/ \E k \in DOMAIN calls, o \in ScorerOutputs : MultiScorerReturns(k, o)
    \/ \E k \in DOMAIN calls : MultiScorerFails(k)
    \/ MultiStage2
    \/ \E k \in DOMAIN calls, o \in VerifierOutputs : MultiVerifierReturns(k, o)
    \/ \E k \in DOMAIN calls : MultiVerifierFails(k)
    \/ SingleEnter
    \/ SingleSkipPatient
    \/ SingleCallComparison
    \/ \E k \in DOMAIN calls, o \in ComparisonOutputs : SingleComparisonReturns(k, o)
    \/ \E k \in DOMAIN calls : SingleComparisonFails(k)
    \/ SingleLoopEnd
    \/ \E randomOutcome \in Randoms, r \in Randoms : MockRecognize(randomOutcome, r)

SpecFlow == InitFlow /\ [][NextFlow]_vars

\* the scan page in a browser, with the roster of the patient context
InitUI ==
    /\ impl = "mock"
    /\ input = <<>>
    /\ pc = "idle"
    /\ idx = 1
    /\ bestCandidate = Null
    /\ calls = <<>>
    /\ result = Null
    /\ status = "running"
    /\ registeredPatients \in Rosters
    /\ mediaDevices \in BOOLEAN
    /\ pageMounted = TRUE
    /\ PageInitial

NextUI ==
    \/ HandleStartScan
    \/ \E m \in MountIds : GetUserMediaResolves(m)
    \/ \E m \in MountIds : GetUserMediaRejects(m)
    \/ HandleCapture
    \/ \E randomOutcome \in Randoms, r \in Randoms : RecognitionSettles(randomOutcome, r)
    \/ CancelScan
    \/ ScanAnother
    \/ PageUnmount

SpecUI == InitUI /\ [][NextUI]_vars

\* external calls settle and continuations run: the request keeps moving
SpecFlowFair == SpecFlow /\ WF_vars(NextFlow)

\* either of the two systems: a recognition request on the server, or the
\* scan page in the browser
InitAll == InitFlow \/ InitUI

NextAll == NextFlow \/ NextUI

SpecAll == InitAll /\ [][NextAll]_vars

\* ------------------------------------------------------------ properties
\* a reference image the policy can use: present and starting with data:image
UsableImage(url) ==
    IF url.kind = "string" THEN startsWith(url.chars, DataImage) ELSE FALSE

ScoringCalls == CallsOf("scorer") \cup CallsOf("comparison")

\* scorer calls that came back with a score
ScoredCalls ==
    { k \in CallsOf("scorer") : calls[k].state = "returned" /\ calls[k].output # Null }

ScoreOf(k) == calls[k].output.confidenceScore

VerifierCalls == CallsOf("verifier")

\* C1: in the multi-stage flow, a scorer call that returns a score >= 95
\* ends the request at once with that candidate as the matched patient: it
\* is the last call ever issued, so no later candidate is scored and the
\* confirmatory verifier is never invoked.
C1_HighScoreShortCircuits ==
    Multi =>
      \A k \in ScoredCalls :
        ScoreOf(k) >= 95 =>
          /\ k = Len(calls)
          /\ VerifierCalls = {}
          /\ pc = "done" /\ status = "returned"
          /\ result = Matched(input[calls[k].idx])
          /\ \A j \in ScoredCalls : j < k => ScoreOf(j) < 95

\* a score of exactly 95 on the first of several usable candidates
C1_Witness ==
    /\ Multi /\ status = "returned"
    /\ \E k \in ScoredCalls :
         /\ ScoreOf(k) = 95
         /\ result = Matched(input[calls[k].idx])
         /\ \E i \in DOMAIN input :
              i > calls[k].idx /\ UsableImage(input[i].faceImageUrl)

\* C2: in both flows a candidate without a usable reference image is never
\* passed to the scorer, the comparison prompt or the verifier, and is never
\* the patient of a matched verdict.
C2_NoImageNeverScoredNorMatched ==
    (Multi \/ Single) =>
      /\ \A k \in DOMAIN calls : UsableImage(calls[k].patient.faceImageUrl)
      /\ bestCandidate # Null => UsableImage(bestCandidate.patient.faceImageUrl)
      /\ (status = "returned" /\ result.matchFound)
           => UsableImage(result.patient.faceImageUrl)

\* a request that ended after passing over a candidate whose faceImageUrl is
\* a string that does not start with data:image
C2_Witness ==
    /\ (Multi \/ Single) /\ status = "returned"
    /\ \E i \in DOMAIN input :
         /\ input[i].faceImageUrl.kind = "string"
         /\ Len(input[i].faceImageUrl.chars) > 0
         /\ ~UsableImage(input[i].faceImageUrl)
         /\ \E k \in DOMAIN calls : calls[k].idx > i

\* C3: the patient the scan page stores in patientData and shows as matched
\* in the result state always has a usable reference image.
C3_PageNeverMatchesNoImage ==
    (scanStep = "result" /\ patientData # Null)
      => UsableImage(patientData.faceImageUrl)

\* C4: the candidate handed to the verifier has the highest score among the
\* candidates whose scorer call returned a score, and among equal highest
\* scores it is the earliest in the input sequence.
C4_VerifierGetsEarliestBest ==
    \A v \in VerifierCalls :
      \E b \in ScoredCalls :
        /\ calls[v].patient = input[calls[b].idx]
        /\ \A k \in ScoredCalls :
             \/ ScoreOf(k) < ScoreOf(b)
             \/ ScoreOf(k) = ScoreOf(b) /\ calls[k].idx >= calls[b].idx

\* the verifier was invoked after two candidates tied for the best score,
\* and after a lower score had come first
C4_Witness ==
    \E v \in VerifierCalls :
      \E a, b, c \in ScoredCalls :
        /\ a < b /\ b < c
        /\ ScoreOf(a) < ScoreOf(b)
        /\ ScoreOf(b) = ScoreOf(c)
        /\ calls[v].patient = input[calls[b].idx]

\* C5: once the verifier has settled the request is over: matched with the
\* verified candidate if the output says isMatch, no-match if it says no,
\* carries no output or the call failed; the verifier is not called again
\* and no other candidate is tried after it.
C5_VerifierDecides ==
    \A v \in VerifierCalls :
      calls[v].state # "inflight" =>
        /\ pc = "done" /\ status = "returned"
        /\ v = Len(calls)
        /\ Cardinality(VerifierCalls) = 1
        /\ result =
             IF calls[v].state = "returned" /\ calls[v].output # Null
                  /\ calls[v].output.isMatch
               THEN Matched(calls[v].patient)
               ELSE NoMatch

\* the verifier returned no output although a second candidate had also
\* reached the minimum threshold: the verdict is no-match
C5_Witness ==
    \E v \in VerifierCalls :
      /\ calls[v].state = "returned" /\ calls[v].output = Null
      /\ result = NoMatch
      /\ \E k \in ScoredCalls :
           ScoreOf(k) >= 75 /\ input[calls[k].idx] # calls[v].patient

\* C6: the verifier is invoked at most once, only after every candidate with
\* a usable image has had its scorer call settle, none with a score >= 95,
\* and only if some score is >= 75; a request that returns with every score
\* below 75 (or with no score) returns no-match without invoking it.
C6_VerifierOnlyAboveMinimum ==
    Multi =>
      /\ Cardinality(VerifierCalls) <= 1
      /\ \A v \in VerifierCalls :
           /\ \A i \in DOMAIN input :
                UsableImage(input[i].faceImageUrl) =>
                  \E k \in CallsOf("scorer") :
                    k < v /\ calls[k].idx = i /\ calls[k].state # "inflight"
           /\ \A k \in ScoredCalls : ScoreOf(k) < 95
           /\ \E k \in ScoredCalls : ScoreOf(k) >= 75
      /\ (status = "returned" /\ \A k \in ScoredCalls : ScoreOf(k) < 75)
           => (result = NoMatch /\ VerifierCalls = {})

\* the verifier was invoked with a best score of exactly 75
C6_Witness ==
    /\ VerifierCalls # {}
    /\ \E k \in ScoredCalls : ScoreOf(k) = 75
    /\ \A k \in ScoredCalls : ScoreOf(k) <= 75

\* a scoring or comparison call that failed
FailedScoring == { k \in ScoringCalls : calls[k].state = "failed" }

\* a call after k that ended the loop early
ShortCircuitAfter(k) ==
    \E j \in ScoringCalls :
      /\ j > k /\ calls[j].state = "returned" /\ calls[j].output # Null
      /\ IF calls[j].kind = "scorer"
           THEN calls[j].output.confidenceScore >= 95
           ELSE calls[j].output.isSamePerson

C7_Absorbed ==
    (Multi \/ Single) =>
      /\ status # "raised"
      /\ \A k \in FailedScoring :
           /\ bestCandidate # Null => bestCandidate.patient # calls[k].patient
           /\ pc = "done" =>
                /\ status = "returned"
                /\ result = NoMatch \/ result.matchFound
                /\ \/ ShortCircuitAfter(k)
                   \/ \A i \in DOMAIN input :
                        (i > calls[k].idx /\ UsableImage(input[i].faceImageUrl))
                          => \E j \in ScoringCalls : calls[j].idx = i

\* C7: a failed scorer (or comparison) call is absorbed: the flow never
\* raises, the failed candidate never becomes the best candidate, every later
\* candidate with a usable image is still scored unless a later call
\* short-circuits, and the request goes on to return a verdict.
C7_ScorerFailureAbsorbed ==
    /\ []C7_Absorbed
    /\ ((Multi \/ Single) /\ FailedScoring # {}) ~> (status = "returned")

\* the first candidate's call failed, a later candidate was scored and the
\* request returned
C7_Witness ==
    /\ (Multi \/ Single) /\ status = "returned"
    /\ \E k \in FailedScoring :
         \E j \in ScoringCalls : j > k /\ calls[j].state = "returned"

\* C8: with an empty candidate sequence no scorer, comparison or verifier
\* call is ever issued and the request ends with the no-match verdict (the
\* mock of the scan page: with null), never with a match or an exception.
C8_EmptyRosterNoMatch ==
    Len(input) = 0 =>
      /\ calls = <<>>
      /\ pc = "done" =>
           /\ status = "returned"
           /\ result = IF Mock THEN Null ELSE NoMatch

\* the mock finished a request over an empty roster
C8_Witness ==
    /\ Len(input) = 0 /\ Mock
    /\ pc = "done" /\ status = "returned"

\* C9: at most one external call is in flight, a call in flight is the last
\* one issued (every earlier call has returned or failed), and the scoring
\* calls follow the input order, each candidate at most once.
C9_OneCallAtATimeInOrder ==
    /\ Cardinality(InFlight) <= 1
    /\ \A k \in InFlight : k = Len(calls)
    /\ \A j, k \in ScoringCalls : j < k => calls[j].idx < calls[k].idx

\* two scorer calls have settled and a third one is in flight
C9_Witness ==
    /\ Multi
    /\ Len(calls) >= 3
    /\ calls[Len(calls)].kind = "scorer"
    /\ Len(calls) \in InFlight

\* C10: once the cleanup of a WebcamCapture instance has run (the component
\* was torn down), the stream that instance acquired is not live, and no
\* stream is stopped more than once.
C10_NoLiveStreamAfterTeardown ==
    \A m \in MountIds :
      /\ effects[m].cleanedUp => tracks[m] # "live"
      /\ stops[m] <= 1

\* the transition table of the scan workflow controller
TableStep(from, event, to) ==
    <<from, event, to>> \in
      { <<"initial", "start", "capturing">>,
        <<"capturing", "capture", "processing">>,
        <<"capturing", "cancel", "initial">>,
        <<"processing", "settle", "result">>,
        <<"result", "reset", "initial">> }

\* C11: every change of scanStep is one of the five transitions of the
\* table, taken on the event the table names for it.
C11_OnlyTableTransitions ==
    [][scanStep' # scanStep => TableStep(scanStep, lastEvent', scanStep')]_vars

\* back in initial after one cancelled attempt and one completed scan: all
\* five transitions have been taken
C11_Witness ==
    /\ pageMounted /\ scanStep = "initial"
    /\ mounts = 2 /\ requests = 1
    /\ lastEvent \in {"cancel", "reset"}

\* how many of a set of conditions hold
Count(conds) == Cardinality({ i \in DOMAIN conds : conds[i] })

\* C12: in the result state exactly one of patientData, noMatchFound and
\* scanError is set, and exactly one of the three blocks (matched, no match,
\* scan failed) is rendered.
C12_ExactlyOnePresentation ==
    scanStep = "result" =>
      /\ Count(<<patientData # Null, noMatchFound, scanError # Null>>) = 1
      /\ Count(<<ShownMatched, ShownNoMatch, ShownError>>) = 1

\* a result that shows no match although patients are registered
C12_Witness ==
    /\ scanStep = "result" /\ ShownNoMatch
    /\ Len(registeredPatients) > 0

\* C13: a cancel happens in capturing, brings scanStep to initial and issues
\* no recognition call; no recognition call is pending in initial or capturing.
C13_CancelReturnsToInitial ==
    /\ [](scanStep \in {"initial", "capturing"} => recognition = "none")
    /\ [][lastEvent' = "cancel" =>
            /\ scanStep = "capturing"
            /\ scanStep' = "initial"
            /\ requests' = requests
            /\ recognition' = "none"]_vars

\* two cancelled attempts, the first from the live preview and the second
\* from the denied-camera view, without any recognition call
C13_Witness ==
    /\ lastEvent = "cancel" /\ scanStep = "initial"
    /\ mounts = 2 /\ requests = 0
    /\ effects[1].getUserMedia = "resolved"
    /\ effects[2].getUserMedia = "rejected"

\* C14: when the recognition call settles on a page that is on screen, the
\* controller is in processing and goes to result in that very step,
\* whatever the outcome; it is never in processing without a pending call.
C14_SettleReachesResult ==
    /\ []((pageMounted /\ scanStep = "processing") => recognition = "pending")
    /\ [][(pageMounted /\ recognition = "pending" /\ recognition' = "none") =>
            /\ scanStep = "processing"
            /\ scanStep' = "result"
            /\ isLoading' = FALSE]_vars

\* the call raised and the controller is in result
C14_Witness ==
    /\ pageMounted /\ lastEvent = "settle"
    /\ scanStep = "result"
    /\ settled.kind = "throw"

\* what a caller awaiting the flow receives once the flow is done
FlowOutcome == IF status = "raised" THEN result ELSE Return(result)

\* C15: in the result state scanError is set exactly when the recognition
\* call raised, and then it is that exception's message; the two flows never
\* raise, whatever scorer or verifier calls failed, so what they hand to a
\* caller is never turned into the error presentation by the page's handler.
C15_ErrorOnlyWhenCallRaises ==
    /\ scanStep = "result" =>
         /\ (scanError # Null) <=> (settled.kind = "throw")
         /\ scanError # Null => scanError = settled.message
    /\ ((Multi \/ Single) /\ pc = "done") =>
         /\ status = "returned"
         /\ ScanErrorAfter(FlowOutcome) = Null

\* the mock raised and the result state shows its message
C15_Witness ==
    /\ scanStep = "result"
    /\ settled = Throw(SimulatedError)
    /\ scanError = SimulatedError
    /\ ShownError

\* C16: the component shows one of its three views, and in the ready view
\* the acquired stream is attached to the video element, so that a capture
\* hands a frame of that stream to onCapture.
C16_ReadyShowsLivePreview ==
    /\ widget # Null =>
         /\ View(widget) \in {"pending", "denied", "ready"}
         /\ View(widget) = "ready" =>
              /\ widget.stream # Null
              /\ widget.srcObject = widget.stream
    /\ lastEvent = "capture" => capturedImage = Image("frame")

\* a verdict over the input roster
IsVerdict(v) ==
    \/ v = NoMatch
    \/ \E i \in DOMAIN input : v = Matched(input[i])

\* C17: a request of either flow ends, its end is a return (never an
\* exception) of one verdict (matched with a patient of the input roster, or
\* no-match with patient null), and once it has ended the verdict stays.
C17_ExactlyOneVerdict ==
    /\ []((Multi \/ Single) =>
            /\ status # "running" => (status = "returned" /\ IsVerdict(result))
            /\ status = "running" => result = Null)
    /\ [][status # "running" => (status' = status /\ result' = result)]_vars
    /\ (Multi \/ Single) ~> (status = "returned")

\* the multi-stage flow returned the second patient of the roster after the
\* verifier confirmed it
C17_Witness ==
    /\ Multi /\ status = "returned"
    /\ Len(input) >= 2 /\ result = Matched(input[2])
    /\ VerifierCalls # {}

SameCalls ==
    { k \in CallsOf("comparison") :
        calls[k].state = "returned" /\ calls[k].output # Null
          /\ calls[k].output.isSamePerson }

\* C19: in the single-stage flow a comparison that returns isSamePerson true
\* is the last call and its candidate is returned; every candidate with a
\* usable image before it was compared and did not say true; if no comparison
\* says true the flow returns no-match after comparing every usable candidate.
C19_SingleStageFirstMatch ==
    Single =>
      /\ \A k \in SameCalls :
           /\ k = Len(calls)
           /\ status = "returned"
           /\ result = Matched(input[calls[k].idx])
           /\ \A i \in 1..(calls[k].idx - 1) :
                UsableImage(input[i].faceImageUrl) =>
                  \E j \in CallsOf("comparison") : j < k /\ calls[j].idx = i
      /\ (status = "returned" /\ SameCalls = {}) =>
           /\ result = NoMatch
           /\ \A i \in DOMAIN input :
                UsableImage(input[i].faceImageUrl) =>
                  \E j \in CallsOf("comparison") :
                    calls[j].idx = i /\ calls[j].state # "inflight"

\* the third comparison said true after one that failed and one that said no
C19_Witness ==
    /\ Single /\ status = "returned"
    /\ Len(calls) = 3 /\ 3 \in SameCalls
    /\ calls[1].state = "failed"
    /\ calls[2].output = [isSamePerson |-> FALSE]

\* C20: outside the result state no outcome is on the page (and nothing is
\* captured or loading before a capture); in the result state the outcome
\* fields are those of the call that just settled.
C20_OutcomeOfCurrentAttempt ==
    /\ scanStep \in {"initial", "capturing"} =>
         /\ capturedImage = Null
         /\ isLoading = FALSE
    /\ scanStep \in {"initial", "capturing", "processing"} =>
         /\ patientData = Null
         /\ scanError = Null
         /\ noMatchFound = FALSE
    /\ scanStep = "result" =>
         /\ patientData = IF settled.kind = "return" THEN settled.value ELSE Null
         /\ noMatchFound = (settled = Return(Null))
         /\ scanError = IF settled.kind = "throw" THEN settled.message ELSE Null

\* a new attempt is capturing after an attempt that identified a patient
C20_Witness ==
    /\ pageMounted /\ scanStep = "capturing"
    /\ requests = 1
    /\ settled.kind = "return" /\ settled.value # Null

\* C21: in every state of the scan workflow controller, isLoading is true
\* exactly when scanStep is processing, and capturedImage is non-null exactly
\* when scanStep is processing or result.
C21_LoadingAndImageFollowStep ==
    /\ isLoading = (scanStep = "processing")
    /\ (capturedImage # Null) = (scanStep \in {"processing", "result"})

\* a second attempt has settled with an error: the result step shows the
\* captured frame and the loading flag is cleared
C21_Witness ==
    /\ pageMounted /\ scanStep = "result"
    /\ requests = 2
    /\ settled.kind = "throw"
    /\ capturedImage # Null /\ ~isLoading

====
